---- MODULE Spec2Model ----
(***************************************************************************)
(* Model of proto/prost/private/protoc_wrapper.rs: the reconciliation of   *)
(* the .rs / .tonic.rs outputs, the module tree of generate_lib_rs and its *)
(* serialization by write_module, the extern paths computed by             *)
(* compute_proto_package_info, and the stages of main around them.         *)
(*                                                                         *)
(* A string is a sequence of one-character strings; a path is the file     *)
(* name inside the (flat) output directory.                                *)
(***************************************************************************)
EXTENDS Integers, Sequences, FiniteSets, TLC

VARIABLES
    \* compute_proto_package_info
    free_field_numbers,  \* the values of the BTreeMap, in key order: one stdout per proto file
    crate_name,
    listing_idx,         \* how many listings the outer loop has started
    lines_left,          \* the lines of the current listing not yet visited
    extern_paths,        \* the BTreeSet<String> being filled
    sym_pc,              \* "run" | "ok" | "err" | "panic"
    \* main: reconciliation, generate_lib_rs, write_module
    is_tonic,
    fs,                  \* the output directory: file name -> content
    snap,                \* the directory as the reconciliation loop found it
    tonic_queue,         \* tonic_files not yet visited, in BTreeSet order
    rust_queue,          \* prost_outputs not yet visited, in BTreeSet order
    rust_files,          \* the set returned by the second find_generated_rust_files
    module_info,         \* BTreeMap<String, Module>
    content,             \* the text generate_lib_rs returns
    pc,
    \* main: the arguments and outputs of the whole run
    rustfmt,             \* Args.rustfmt is Some
    out_librs,           \* the file at out_librs: <<>> while not written, else <<its state>>
    package_info_file    \* the file at package_info_file: <<>> while not written, else <<its text>>

symVars == <<free_field_numbers, crate_name, listing_idx, lines_left, extern_paths, sym_pc>>
fileVars == <<is_tonic, fs, snap, tonic_queue, rust_queue, rust_files, module_info, content, pc>>
mainVars == <<rustfmt, out_librs, package_info_file>>
vars == <<free_field_numbers, crate_name, listing_idx, lines_left, extern_paths, sym_pc,
          is_tonic, fs, snap, tonic_queue, rust_queue, rust_files, module_info, content, pc,
          rustfmt, out_librs, package_info_file>>

----------------------------------------------------------------------------
\* Bounds of the model.

\* The most lines one listing holds.
MaxLines == 2

\* The most files the output directory holds when the wrapper starts.
MaxFiles == 4

----------------------------------------------------------------------------
\* Strings.

\* The byte of each character the model uses (ASCII).
Code ==
    ("\t" :> 9) @@ ("\n" :> 10) @@ ("\r" :> 13) @@ (" " :> 32) @@ ("." :> 46) @@
    (":" :> 58) @@ ("=" :> 61) @@ ("A" :> 65) @@ ("B" :> 66) @@ ("_" :> 95) @@
    ("a" :> 97) @@ ("b" :> 98) @@ ("c" :> 99) @@ ("f" :> 102) @@ ("g" :> 103) @@
    ("i" :> 105) @@ ("k" :> 107) @@ ("m" :> 109) @@ ("n" :> 110) @@ ("o" :> 111) @@
    ("p" :> 112) @@ ("r" :> 114) @@ ("s" :> 115) @@ ("t" :> 116) @@ ("z" :> 122)

\* Ord for str / String / a one-component PathBuf: lexicographic by byte.
RECURSIVE StrLess(_, _)
StrLess(s, t) ==
    IF t = <<>> THEN FALSE
    ELSE IF s = <<>> THEN TRUE
    ELSE IF Code[Head(s)] # Code[Head(t)] THEN Code[Head(s)] < Code[Head(t)]
    ELSE StrLess(Tail(s), Tail(t))

\* The iteration order of a BTreeSet<String> / BTreeSet<PathBuf> / BTreeMap keys.
RECURSIVE SortedSeq(_)
SortedSeq(S) ==
    IF S = {} THEN <<>>
    ELSE LET m == CHOOSE x \in S : \A y \in S \ {x} : StrLess(x, y)
         IN  <<m>> \o SortedSeq(S \ {m})

\* The positions of character ch in s.
Positions(s, ch) == {i \in 1..Len(s) : s[i] = ch}

Min(S) == CHOOSE x \in S : \A y \in S : x <= y
Max(S) == CHOOSE x \in S : \A y \in S : x >= y

\* str::contains(char)
Contains(s, ch) == Positions(s, ch) # {}

\* str::split_once(char): <<before, after>> at the first ch; <<>> stands for None.
SplitOnce(s, ch) ==
    IF Positions(s, ch) = {} THEN <<>>
    ELSE LET i == Min(Positions(s, ch))
         IN  <<SubSeq(s, 1, i - 1), SubSeq(s, i + 1, Len(s))>>

\* str::rsplit_once(char): <<before, after>> at the last ch; <<>> stands for None.
RSplitOnce(s, ch) ==
    IF Positions(s, ch) = {} THEN <<>>
    ELSE LET i == Max(Positions(s, ch))
         IN  <<SubSeq(s, 1, i - 1), SubSeq(s, i + 1, Len(s))>>

\* str::split(char), collected: the pieces between the ch's, empty ones kept.
RECURSIVE Split(_, _)
Split(s, ch) ==
    IF Positions(s, ch) = {} THEN <<s>>
    ELSE LET i == Min(Positions(s, ch))
         IN  <<SubSeq(s, 1, i - 1)>> \o Split(SubSeq(s, i + 1, Len(s)), ch)

\* [..].join(sep)
RECURSIVE Join(_, _)
Join(parts, sep) ==
    IF parts = <<>> THEN <<>>
    ELSE IF Len(parts) = 1 THEN parts[1]
    ELSE parts[1] \o sep \o Join(Tail(parts), sep)

\* str::replace(char, &str)
RECURSIVE Replace(_, _, _)
Replace(s, ch, by) ==
    IF s = <<>> THEN <<>>
    ELSE (IF Head(s) = ch THEN by ELSE <<Head(s)>>) \o Replace(Tail(s), ch, by)

\* str::trim_matches(char): every leading and every trailing ch removed.
RECURSIVE TrimMatches(_, _)
TrimMatches(s, ch) ==
    IF s = <<>> THEN <<>>
    ELSE IF Head(s) = ch THEN TrimMatches(Tail(s), ch)
    ELSE IF s[Len(s)] = ch THEN TrimMatches(SubSeq(s, 1, Len(s) - 1), ch)
    ELSE s

IsWhitespace(ch) == ch \in {" ", "\t", "\n", "\r"}

\* str::trim(): leading and trailing whitespace removed.
RECURSIVE Trim(_)
Trim(s) ==
    IF s = <<>> THEN <<>>
    ELSE IF IsWhitespace(Head(s)) THEN Trim(Tail(s))
    ELSE IF IsWhitespace(s[Len(s)]) THEN Trim(SubSeq(s, 1, Len(s) - 1))
    ELSE s

\* str::lines(): split at "\n", a final line ending adds no line, a "\r" before the
\* "\n" belongs to the line ending.
Lines(s) ==
    LET raw  == Split(s, "\n")
        kept == IF raw[Len(raw)] = <<>> THEN SubSeq(raw, 1, Len(raw) - 1) ELSE raw
        strip(l) == IF l # <<>> /\ l[Len(l)] = "\r" THEN SubSeq(l, 1, Len(l) - 1) ELSE l
    IN  [i \in 1..Len(kept) |-> strip(kept[i])]

\* str::ends_with(&str)
EndsWith(s, suffix) ==
    /\ Len(s) >= Len(suffix)
    /\ SubSeq(s, Len(s) - Len(suffix) + 1, Len(s)) = suffix

\* str::strip_suffix(&str), where the suffix is there.
StripSuffix(s, suffix) == SubSeq(s, 1, Len(s) - Len(suffix))

\* char::to_lowercase on the characters of the model.
LowerChar(ch) ==
    IF Code[ch] >= 65 /\ Code[ch] <= 90
    THEN CHOOSE l \in DOMAIN Code : Code[l] = Code[ch] + 32
    ELSE ch

\* str::to_lowercase()
ToLowercase(s) == [i \in 1..Len(s) |-> LowerChar(s[i])]

----------------------------------------------------------------------------
\* compute_proto_package_info

\* ExternPath without the trim_matches(':') of the symbol.
ExternPath_NoTrim(text, crate) ==
    LET absolute    == SplitOnce(text, " ")[1]
        split       == RSplitOnce(absolute, ".")
        package     == IF split = <<>> THEN <<>> ELSE split[1]
        symbol_name == IF split = <<>> THEN absolute ELSE split[2]
        symbol      == Replace(package, ".", <<":", ":">>) \o <<":", ":">> \o symbol_name
    IN  <<".">> \o absolute \o <<"=">> \o crate \o <<":", ":">> \o symbol

\* The extern path of one trimmed, non-blank line that holds a space.
ExternPath(text, crate) ==
    LET absolute    == SplitOnce(text, " ")[1]
        split       == RSplitOnce(absolute, ".")
        package     == IF split = <<>> THEN <<>> ELSE split[1]
        symbol_name == IF split = <<>> THEN absolute ELSE split[2]
        symbol      == Replace(package, ".", <<":", ":">>) \o <<":", ":">> \o symbol_name
    IN  <<".">> \o absolute \o <<"=">> \o crate \o <<":", ":">> \o TrimMatches(symbol, ":")

\* The listing lines the model draws from: names with no, one and two dots, the same
\* name on two different lines, a line of whitespace, and a line that holds no space.
LineNoDot     == <<"m", " ", "f">>
LineOneDot    == <<"p", ".", "m", " ", "f">>
LineOneDotBis == <<" ", "p", ".", "m", " ", " ", "g">>
LineTwoDots   == <<"p", ".", "m", ".", "n", " ", "f">>
LineBlank     == <<" ">>
LineNoSpace   == <<"p", ".", "n">>

ListingLines == {LineNoDot, LineOneDot, LineOneDotBis, LineTwoDots, LineBlank, LineNoSpace}

\* A stdout of protoc --print_free_field_numbers: each line ended by "\n".
RECURSIVE Stdout(_)
Stdout(ls) == IF ls = <<>> THEN <<>> ELSE Head(ls) \o <<"\n">> \o Stdout(Tail(ls))

Listings == UNION {[1..n -> ListingLines] : n \in 0..MaxLines}

\* The proto files of the run (the keys of the map), in key order.
ProtoFiles == <<<<"x">>, <<"y">>>>

\* The rest of main is not part of the run.
MainIdle ==
    /\ rustfmt = FALSE
    /\ out_librs = <<>>
    /\ package_info_file = <<>>

FileIdle ==
    /\ is_tonic = FALSE
    /\ fs = <<>>
    /\ snap = <<>>
    /\ tonic_queue = <<>>
    /\ rust_queue = <<>>
    /\ rust_files = {}
    /\ module_info = <<>>
    /\ content = <<>>
    /\ pc = "idle"

SymInit ==
    /\ free_field_numbers \in [1..Len(ProtoFiles) -> {Stdout(ls) : ls \in Listings}]
    /\ crate_name = <<"c", "k">>
    /\ listing_idx = 0
    /\ lines_left = <<>>
    /\ extern_paths = {}
    /\ sym_pc = "run"
    /\ FileIdle
    /\ MainIdle

\* for stdout in proto_free_field_numbers.values(): the next listing starts.
NextListing ==
    /\ sym_pc = "run"
    /\ lines_left = <<>>
    /\ listing_idx < Len(free_field_numbers)
    /\ listing_idx' = listing_idx + 1
    /\ lines_left' = Lines(free_field_numbers[listing_idx + 1])
    /\ UNCHANGED <<free_field_numbers, crate_name, extern_paths, sym_pc>>
    /\ UNCHANGED fileVars
    /\ UNCHANGED mainVars

\* A line that is empty once trimmed: continue.
SkipBlankLine ==
    /\ sym_pc = "run"
    /\ lines_left # <<>>
    /\ Trim(Head(lines_left)) = <<>>
    /\ lines_left' = Tail(lines_left)
    /\ UNCHANGED <<free_field_numbers, crate_name, listing_idx, extern_paths, sym_pc>>
    /\ UNCHANGED fileVars
    /\ UNCHANGED mainVars

\* MalformedLine with the line passed over like a blank one.
MalformedLine_Skip ==
    /\ sym_pc = "run"
    /\ lines_left # <<>>
    /\ Trim(Head(lines_left)) # <<>>
    /\ SplitOnce(Trim(Head(lines_left)), " ") = <<>>
    /\ lines_left' = Tail(lines_left)
    /\ UNCHANGED <<free_field_numbers, crate_name, listing_idx, extern_paths, sym_pc>>
    /\ UNCHANGED fileVars
    /\ UNCHANGED mainVars

\* split_once(' ') finds no space: expect() panics.
MalformedLine ==
    /\ sym_pc = "run"
    /\ lines_left # <<>>
    /\ Trim(Head(lines_left)) # <<>>
    /\ SplitOnce(Trim(Head(lines_left)), " ") = <<>>
    /\ sym_pc' = "panic"
    /\ UNCHANGED <<free_field_numbers, crate_name, listing_idx, lines_left, extern_paths>>
    /\ UNCHANGED fileVars
    /\ UNCHANGED mainVars

\* InsertExternPath with the result of insert() ignored.
InsertExternPath_IgnoreResult ==
    /\ sym_pc = "run"
    /\ lines_left # <<>>
    /\ Trim(Head(lines_left)) # <<>>
    /\ SplitOnce(Trim(Head(lines_left)), " ") # <<>>
    /\ extern_paths' = extern_paths \cup {ExternPath(Trim(Head(lines_left)), crate_name)}
    /\ lines_left' = Tail(lines_left)
    /\ UNCHANGED <<free_field_numbers, crate_name, listing_idx, sym_pc>>
    /\ UNCHANGED fileVars
    /\ UNCHANGED mainVars

\* extern_paths.insert(..) of a new string.
InsertExternPath ==
    /\ sym_pc = "run"
    /\ lines_left # <<>>
    /\ Trim(Head(lines_left)) # <<>>
    /\ SplitOnce(Trim(Head(lines_left)), " ") # <<>>
    /\ ExternPath(Trim(Head(lines_left)), crate_name) \notin extern_paths
    /\ extern_paths' = extern_paths \cup {ExternPath(Trim(Head(lines_left)), crate_name)}
    /\ lines_left' = Tail(lines_left)
    /\ UNCHANGED <<free_field_numbers, crate_name, listing_idx, sym_pc>>
    /\ UNCHANGED fileVars
    /\ UNCHANGED mainVars

\* extern_paths.insert(..) returns false: return Err("Duplicate extern: ..").
DuplicateExtern ==
    /\ sym_pc = "run"
    /\ lines_left # <<>>
    /\ Trim(Head(lines_left)) # <<>>
    /\ SplitOnce(Trim(Head(lines_left)), " ") # <<>>
    /\ ExternPath(Trim(Head(lines_left)), crate_name) \in extern_paths
    /\ sym_pc' = "err"
    /\ UNCHANGED <<free_field_numbers, crate_name, listing_idx, lines_left, extern_paths>>
    /\ UNCHANGED fileVars
    /\ UNCHANGED mainVars

\* Both loops are over: Ok(extern_paths).
ReturnOk ==
    /\ sym_pc = "run"
    /\ lines_left = <<>>
    /\ listing_idx = Len(free_field_numbers)
    /\ sym_pc' = "ok"
    /\ UNCHANGED <<free_field_numbers, crate_name, listing_idx, lines_left, extern_paths>>
    /\ UNCHANGED fileVars
    /\ UNCHANGED mainVars

SymNext ==
    \/ NextListing
    \/ SkipBlankLine
    \/ MalformedLine
    \/ InsertExternPath
    \/ DuplicateExtern
    \/ ReturnOk

SpecSym == SymInit /\ [][SymNext]_vars

----------------------------------------------------------------------------
\* The output directory, its files and find_generated_rust_files.

DotRs      == <<".", "r", "s">>
DotTonic   == <<".", "t", "o", "n", "i", "c">>
DotTonicRs == DotTonic \o DotRs
Underscore == <<"_">>

\* A piece of text: the content a file had when the wrapper started (text), the "\n"
\* of the merge (nl), and what generate_lib_rs and write_module format themselves:
\* the "// @generated\n\n" header, "{indent}pub mod {name} {\n" (open) and
\* "{indent}}\n" (close), with d the depth the indent repeats "  " for.
Text(path)         == [k |-> "text",   d |-> 0,     n |-> path]
Newline            == [k |-> "nl",     d |-> 0,     n |-> <<>>]
Header             == [k |-> "header", d |-> 0,     n |-> <<>>]
OpenMod(depth, nm) == [k |-> "open",   d |-> depth, n |-> nm]
CloseMod(depth)    == [k |-> "close",  d |-> depth, n |-> <<>>]

\* fs::write, fs::remove_file, fs::rename on the directory.
WriteFile(dir, path, text) == [q \in DOMAIN dir \cup {path} |-> IF q = path THEN text ELSE dir[q]]
RemoveFile(dir, path) == [q \in DOMAIN dir \ {path} |-> dir[q]]
RenameFile(dir, from, to) == WriteFile(RemoveFile(dir, from), to, dir[from])

\* Path::extension: <<ext>>, or <<>> for None (no '.', or only a leading one).
Extension(name) ==
    IF Positions(name, ".") = {} \/ Max(Positions(name, ".")) = 1 THEN <<>>
    ELSE <<SubSeq(name, Max(Positions(name, ".")) + 1, Len(name))>>

\* Path::file_stem: the name before its last '.', the whole name where extension is None.
FileStem(name) ==
    IF Positions(name, ".") = {} \/ Max(Positions(name, ".")) = 1 THEN name
    ELSE SubSeq(name, 1, Max(Positions(name, ".")) - 1)

\* find_generated_rust_files: the .rs files, and a file named "_" renamed to "_.rs".
find_generated_rust_files(dir) ==
    LET rs == {path \in DOMAIN dir : Extension(path) = <<<<"r", "s">>>>}
    IN  IF Underscore \in DOMAIN dir
        THEN [files |-> rs \cup {Underscore \o DotRs},
              dir   |-> RenameFile(dir, Underscore, Underscore \o DotRs)]
        ELSE [files |-> rs, dir |-> dir]

\* The packages whose outputs the model draws from: a chain a, a.b, a.b.c, a child
\* that sorts after its parent's file (a.z), the anonymous package "_", a package
\* under it, and a package with an upper-case letter.
Stems ==
    { <<"a">>, <<"a", ".", "b">>, <<"a", ".", "b", ".", "c">>, <<"a", ".", "z">>,
      Underscore, <<"_", ".", "z">>, <<"B">> }

PrimaryFiles == {stem \o DotRs : stem \in Stems}
\* protoc-gen-tonic's outputs, the one of the empty package among them.
ServiceFiles == {stem \o DotTonicRs : stem \in Stems} \cup {DotTonicRs}

\* What protoc may have left in out_dir: --tonic_out is passed only with --is_tonic.
OutputFiles(tonic) ==
    IF tonic THEN PrimaryFiles \cup ServiceFiles \cup {Underscore}
    ELSE PrimaryFiles \cup {Underscore}

InitialDirs(tonic) ==
    {[path \in S |-> <<Text(path)>>] :
        S \in {T \in SUBSET OutputFiles(tonic) : Cardinality(T) <= MaxFiles}}

SymIdle ==
    /\ free_field_numbers = <<>>
    /\ crate_name = <<>>
    /\ listing_idx = 0
    /\ lines_left = <<>>
    /\ extern_paths = {}
    /\ sym_pc = "idle"

\* main after protoc has run (line 493).
Init ==
    /\ is_tonic \in BOOLEAN
    /\ fs \in InitialDirs(is_tonic)
    /\ snap = <<>>
    /\ tonic_queue = <<>>
    /\ rust_queue = <<>>
    /\ rust_files = {}
    /\ module_info = <<>>
    /\ content = <<>>
    /\ pc = "start"
    /\ SymIdle
    /\ MainIdle

----------------------------------------------------------------------------
\* main: the reconciliation loop of the tonic mode.

\* let tonic_files = find_generated_rust_files(&out_dir)
FindTonicFiles ==
    /\ pc = "start"
    /\ is_tonic
    /\ fs' = find_generated_rust_files(fs).dir
    /\ snap' = fs'
    /\ tonic_queue' = SortedSeq(find_generated_rust_files(fs).files)
    /\ pc' = "reconcile"
    /\ UNCHANGED <<is_tonic, rust_queue, rust_files, module_info, content>>
    /\ UNCHANGED symVars
    /\ UNCHANGED mainVars

\* The .tonic.rs name of a .rs file, and the .rs name of a .tonic.rs file.
RealTonicFile(tonic_file) == StripSuffix(tonic_file, DotRs) \o DotTonicRs
RsFile(tonic_file) == StripSuffix(tonic_file, DotTonicRs) \o DotRs

\* A .rs file whose .tonic.rs exists: continue.
SkipPrimary ==
    /\ pc = "reconcile"
    /\ tonic_queue # <<>>
    /\ ~EndsWith(Head(tonic_queue), DotTonicRs)
    /\ RealTonicFile(Head(tonic_queue)) \in DOMAIN fs
    /\ tonic_queue' = Tail(tonic_queue)
    /\ UNCHANGED <<is_tonic, fs, snap, rust_queue, rust_files, module_info, content, pc>>
    /\ UNCHANGED symVars
    /\ UNCHANGED mainVars

\* RenamePrimary that copies: the .rs file stays.
RenamePrimary_Copy ==
    /\ pc = "reconcile"
    /\ tonic_queue # <<>>
    /\ ~EndsWith(Head(tonic_queue), DotTonicRs)
    /\ RealTonicFile(Head(tonic_queue)) \notin DOMAIN fs
    /\ Head(tonic_queue) \in DOMAIN fs
    /\ fs' = WriteFile(fs, RealTonicFile(Head(tonic_queue)), fs[Head(tonic_queue)])
    /\ tonic_queue' = Tail(tonic_queue)
    /\ UNCHANGED <<is_tonic, snap, rust_queue, rust_files, module_info, content, pc>>
    /\ UNCHANGED symVars
    /\ UNCHANGED mainVars

\* RenamePrimary that leaves the .rs file as it is.
RenamePrimary_Skip ==
    /\ pc = "reconcile"
    /\ tonic_queue # <<>>
    /\ ~EndsWith(Head(tonic_queue), DotTonicRs)
    /\ RealTonicFile(Head(tonic_queue)) \notin DOMAIN fs
    /\ tonic_queue' = Tail(tonic_queue)
    /\ UNCHANGED <<is_tonic, fs, snap, rust_queue, rust_files, module_info, content, pc>>
    /\ UNCHANGED symVars
    /\ UNCHANGED mainVars

\* A .rs file without a .tonic.rs: fs::rename to the .tonic.rs name (expect() panics
\* when the file is gone).
RenamePrimary ==
    /\ pc = "reconcile"
    /\ tonic_queue # <<>>
    /\ ~EndsWith(Head(tonic_queue), DotTonicRs)
    /\ RealTonicFile(Head(tonic_queue)) \notin DOMAIN fs
    /\ IF Head(tonic_queue) \in DOMAIN fs
       THEN /\ fs' = RenameFile(fs, Head(tonic_queue), RealTonicFile(Head(tonic_queue)))
            /\ tonic_queue' = Tail(tonic_queue)
            /\ pc' = pc
       ELSE /\ pc' = "panic"
            /\ UNCHANGED <<fs, tonic_queue>>
    /\ UNCHANGED <<is_tonic, snap, rust_queue, rust_files, module_info, content>>
    /\ UNCHANGED symVars
    /\ UNCHANGED mainVars

\* MergeService that writes the .tonic.rs content first.
MergeService_ServiceFirst ==
    /\ pc = "reconcile"
    /\ tonic_queue # <<>>
    /\ EndsWith(Head(tonic_queue), DotTonicRs)
    /\ RsFile(Head(tonic_queue)) \in DOMAIN fs
    /\ Head(tonic_queue) \in DOMAIN fs
    /\ fs' = RemoveFile(
                 WriteFile(fs, Head(tonic_queue),
                           fs[Head(tonic_queue)] \o <<Newline>> \o fs[RsFile(Head(tonic_queue))]),
                 RsFile(Head(tonic_queue)))
    /\ tonic_queue' = Tail(tonic_queue)
    /\ UNCHANGED <<is_tonic, snap, rust_queue, rust_files, module_info, content, pc>>
    /\ UNCHANGED symVars
    /\ UNCHANGED mainVars

\* A .tonic.rs file whose .rs exists: the .rs content, "\n" and the .tonic.rs content
\* are written to the .tonic.rs file, and the .rs file is removed.
MergeService ==
    /\ pc = "reconcile"
    /\ tonic_queue # <<>>
    /\ EndsWith(Head(tonic_queue), DotTonicRs)
    /\ RsFile(Head(tonic_queue)) \in DOMAIN fs
    /\ IF Head(tonic_queue) \in DOMAIN fs
       THEN /\ fs' = RemoveFile(
                        WriteFile(fs, Head(tonic_queue),
                                  fs[RsFile(Head(tonic_queue))] \o <<Newline>> \o fs[Head(tonic_queue)]),
                        RsFile(Head(tonic_queue)))
            /\ tonic_queue' = Tail(tonic_queue)
            /\ pc' = pc
       ELSE /\ pc' = "panic"
            /\ UNCHANGED <<fs, tonic_queue>>
    /\ UNCHANGED <<is_tonic, snap, rust_queue, rust_files, module_info, content>>
    /\ UNCHANGED symVars
    /\ UNCHANGED mainVars

\* A .tonic.rs file without a .rs file: nothing to do.
KeepService ==
    /\ pc = "reconcile"
    /\ tonic_queue # <<>>
    /\ EndsWith(Head(tonic_queue), DotTonicRs)
    /\ RsFile(Head(tonic_queue)) \notin DOMAIN fs
    /\ tonic_queue' = Tail(tonic_queue)
    /\ UNCHANGED <<is_tonic, fs, snap, rust_queue, rust_files, module_info, content, pc>>
    /\ UNCHANGED symVars
    /\ UNCHANGED mainVars

\* ReconcileFile that renames a .rs file without looking for its .tonic.rs file.
ReconcileFile_RenameOver(dir, tonic_file) ==
    IF ~EndsWith(tonic_file, DotTonicRs)
    THEN IF tonic_file \in DOMAIN dir
         THEN [panic |-> FALSE, dir |-> RenameFile(dir, tonic_file, RealTonicFile(tonic_file))]
         ELSE [panic |-> TRUE, dir |-> dir]
    ELSE IF RsFile(tonic_file) \in DOMAIN dir
         THEN IF tonic_file \in DOMAIN dir
              THEN [panic |-> FALSE,
                    dir   |-> RemoveFile(
                                  WriteFile(dir, tonic_file,
                                            dir[RsFile(tonic_file)] \o <<Newline>> \o dir[tonic_file]),
                                  RsFile(tonic_file))]
              ELSE [panic |-> TRUE, dir |-> dir]
         ELSE [panic |-> FALSE, dir |-> dir]

\* The body of the loop for one file of the snapshot, as a function of the directory:
\* the directory it leaves, or a panic of one of its expect()s.
ReconcileFile(dir, tonic_file) ==
    IF ~EndsWith(tonic_file, DotTonicRs)
    THEN IF RealTonicFile(tonic_file) \in DOMAIN dir
         THEN [panic |-> FALSE, dir |-> dir]
         ELSE IF tonic_file \in DOMAIN dir
              THEN [panic |-> FALSE, dir |-> RenameFile(dir, tonic_file, RealTonicFile(tonic_file))]
              ELSE [panic |-> TRUE, dir |-> dir]
    ELSE IF RsFile(tonic_file) \in DOMAIN dir
         THEN IF tonic_file \in DOMAIN dir
              THEN [panic |-> FALSE,
                    dir   |-> RemoveFile(
                                  WriteFile(dir, tonic_file,
                                            dir[RsFile(tonic_file)] \o <<Newline>> \o dir[tonic_file]),
                                  RsFile(tonic_file))]
              ELSE [panic |-> TRUE, dir |-> dir]
         ELSE [panic |-> FALSE, dir |-> dir]

\* for tonic_file in tonic_files.iter(), over the files in the order of queue.
RECURSIVE ReconcileLoop(_, _)
ReconcileLoop(dir, queue) ==
    IF queue = <<>> THEN [panic |-> FALSE, dir |-> dir]
    ELSE LET step == ReconcileFile(dir, Head(queue))
         IN  IF step.panic THEN step ELSE ReconcileLoop(step.dir, Tail(queue))

\* The whole block of the tonic mode run on a directory: the snapshot, then the loop.
Reconcile(dir) ==
    LET found == find_generated_rust_files(dir)
    IN  ReconcileLoop(found.dir, SortedSeq(found.files))

\* The reconciliation is over, or was not asked for.
AtFind ==
    \/ pc = "start" /\ ~is_tonic
    \/ pc = "reconcile" /\ tonic_queue = <<>>

\* let rust_files = find_generated_rust_files(&out_dir), not empty. (The listings and
\* compute_proto_package_info, which SpecSym models, run between this and
\* generate_lib_rs.)
FindRustFiles ==
    /\ AtFind
    /\ find_generated_rust_files(fs).files # {}
    /\ fs' = find_generated_rust_files(fs).dir
    /\ rust_files' = find_generated_rust_files(fs).files
    /\ rust_queue' = SortedSeq(find_generated_rust_files(fs).files)
    /\ pc' = "generate"
    /\ UNCHANGED <<is_tonic, snap, tonic_queue, module_info, content>>
    /\ UNCHANGED symVars
    /\ UNCHANGED mainVars

\* panic!("No .rs files were generated by prost.")
NoRustFiles ==
    /\ AtFind
    /\ find_generated_rust_files(fs).files = {}
    /\ pc' = "panic"
    /\ UNCHANGED <<is_tonic, fs, snap, tonic_queue, rust_queue, rust_files, module_info, content>>
    /\ UNCHANGED symVars
    /\ UNCHANGED mainVars

----------------------------------------------------------------------------
\* generate_lib_rs: the module tree.

\* file_stem, the ".tonic" stripped in tonic mode, lower-cased.
PackageOfStem(path, tonic) ==
    IF tonic THEN StripSuffix(FileStem(path), DotTonic) ELSE FileStem(path)

ModuleName(path, tonic) == ToLowercase(PackageOfStem(path, tonic))

\* BTreeMap::insert.
MapInsert(map, key, value) == [q \in DOMAIN map \cup {key} |-> IF q = key THEN value ELSE map[q]]

\* AddParents with and_modify alone: a missing parent is not created.
RECURSIVE AddParents_NoCreate(_, _, _)
AddParents_NoCreate(map, module_parts, index) ==
    IF index + 1 >= Len(module_parts) THEN map
    ELSE LET full_parent_module_name == Join(SubSeq(module_parts, 1, index + 1), <<".">>)
             child_module_name       == module_parts[index + 2]
         IN  IF full_parent_module_name \in DOMAIN map
             THEN AddParents_NoCreate(
                      MapInsert(map, full_parent_module_name,
                                [map[full_parent_module_name] EXCEPT
                                    !.submodules = @ \cup {child_module_name}]),
                      module_parts, index + 1)
             ELSE AddParents_NoCreate(map, module_parts, index + 1)

\* The loop over parent_module_index (0-based) from index on: each strict prefix of
\* module_parts gets the next part as a submodule, and is created without contents
\* where it is missing.
RECURSIVE AddParents(_, _, _)
AddParents(map, module_parts, index) ==
    IF index + 1 >= Len(module_parts) THEN map
    ELSE LET full_parent_module_name == Join(SubSeq(module_parts, 1, index + 1), <<".">>)
             parent_module_name      == module_parts[index + 1]
             child_module_name       == module_parts[index + 2]
             entry ==
                 IF full_parent_module_name \in DOMAIN map
                 THEN [map[full_parent_module_name] EXCEPT
                          !.submodules = @ \cup {child_module_name}]
                 ELSE [name |-> parent_module_name, contents |-> <<>>,
                       submodules |-> {child_module_name}]
         IN  AddParents(MapInsert(map, full_parent_module_name, entry), module_parts, index + 1)

\* The body of the loop of generate_lib_rs for one file with a non-empty module name.
InsertFragment(map, module_name, contents) ==
    LET name == IF Contains(module_name, ".") THEN RSplitOnce(module_name, ".")[2]
                ELSE module_name
        inserted == MapInsert(map, module_name,
                              [name |-> name, contents |-> contents, submodules |-> {}])
    IN  AddParents(inserted, Split(module_name, "."), 0)

\* SkipEmptyModule with the fragment kept: it enters module_info as the module "_".
SkipEmptyModule_Insert ==
    /\ pc = "generate"
    /\ rust_queue # <<>>
    /\ is_tonic => EndsWith(FileStem(Head(rust_queue)), DotTonic)
    /\ Head(rust_queue) \in DOMAIN fs
    /\ ModuleName(Head(rust_queue), is_tonic) = <<>>
    /\ module_info' = InsertFragment(module_info, Underscore, fs[Head(rust_queue)])
    /\ rust_queue' = Tail(rust_queue)
    /\ UNCHANGED <<is_tonic, fs, snap, tonic_queue, rust_files, content, pc>>
    /\ UNCHANGED symVars
    /\ UNCHANGED mainVars

\* A file whose module name is empty: continue.
SkipEmptyModule ==
    /\ pc = "generate"
    /\ rust_queue # <<>>
    /\ is_tonic => EndsWith(FileStem(Head(rust_queue)), DotTonic)
    /\ ModuleName(Head(rust_queue), is_tonic) = <<>>
    /\ rust_queue' = Tail(rust_queue)
    /\ UNCHANGED <<is_tonic, fs, snap, tonic_queue, rust_files, module_info, content, pc>>
    /\ UNCHANGED symVars
    /\ UNCHANGED mainVars

\* One file of prost_outputs: its module and the module's parents enter module_info.
\* In tonic mode strip_suffix(".tonic") panics on a stem without it, and
\* read_to_string panics on a file that is gone.
InsertModule ==
    /\ pc = "generate"
    /\ rust_queue # <<>>
    /\ IF (is_tonic /\ ~EndsWith(FileStem(Head(rust_queue)), DotTonic))
          \/ Head(rust_queue) \notin DOMAIN fs
       THEN /\ pc' = "panic"
            /\ UNCHANGED <<rust_queue, module_info>>
       ELSE /\ ModuleName(Head(rust_queue), is_tonic) # <<>>
            /\ module_info' = InsertFragment(module_info,
                                             ModuleName(Head(rust_queue), is_tonic),
                                             fs[Head(rust_queue)])
            /\ rust_queue' = Tail(rust_queue)
            /\ pc' = pc
    /\ UNCHANGED <<is_tonic, fs, snap, tonic_queue, rust_files, content>>
    /\ UNCHANGED symVars
    /\ UNCHANGED mainVars

\* Concatenation of a sequence of texts.
RECURSIVE Concat(_)
Concat(texts) == IF texts = <<>> THEN <<>> ELSE Head(texts) \o Concat(Tail(texts))

\* write_module that wraps every module, the "_" one too.
RECURSIVE write_module_AlwaysScoped(_, _, _)
write_module_AlwaysScoped(map, module_name, depth) ==
    IF module_name = <<>>
    THEN LET keys == SortedSeq(DOMAIN map)
         IN  Concat([i \in 1..Len(keys) |-> write_module_AlwaysScoped(map, keys[i], depth + 1)])
    ELSE LET module == map[module_name]
             subs   == SortedSeq(module.submodules)
         IN  <<OpenMod(depth, module.name)>>
             \o module.contents
             \o Concat([i \in 1..Len(subs) |->
                          write_module_AlwaysScoped(map, module_name \o <<".">> \o subs[i], depth + 1)])
             \o <<CloseMod(depth)>>

\* write_module: what one call appends to content.
RECURSIVE write_module(_, _, _)
write_module(map, module_name, depth) ==
    IF module_name = <<>>
    THEN LET keys == SortedSeq(DOMAIN map)
         IN  Concat([i \in 1..Len(keys) |-> write_module(map, keys[i], depth + 1)])
    ELSE LET module         == map[module_name]
             is_rust_module == module.name # Underscore
             subs           == SortedSeq(module.submodules)
         IN  (IF is_rust_module THEN <<OpenMod(depth, module.name)>> ELSE <<>>)
             \o module.contents
             \o Concat([i \in 1..Len(subs) |->
                          write_module(map, module_name \o <<".">> \o subs[i], depth + 1)])
             \o (IF is_rust_module THEN <<CloseMod(depth)>> ELSE <<>>)

\* The loop of generate_lib_rs over the files in the order given.
RECURSIVE BuildModuleInfo(_, _, _, _)
BuildModuleInfo(map, paths, dir, tonic) ==
    IF paths = <<>> THEN map
    ELSE IF ModuleName(Head(paths), tonic) = <<>>
    THEN BuildModuleInfo(map, Tail(paths), dir, tonic)
    ELSE BuildModuleInfo(InsertFragment(map, ModuleName(Head(paths), tonic), dir[Head(paths)]),
                         Tail(paths), dir, tonic)

\* generate_lib_rs with its loop run over paths in the order given.
generate_lib_rs(paths, dir, tonic) ==
    <<Header>> \o write_module(BuildModuleInfo(<<>>, paths, dir, tonic), <<>>, 0)

\* The end of generate_lib_rs: the header, then write_module from the root.
WriteLibRs ==
    /\ pc = "generate"
    /\ rust_queue = <<>>
    /\ content' = <<Header>> \o write_module(module_info, <<>>, 0)
    /\ pc' = "done"
    /\ UNCHANGED <<is_tonic, fs, snap, tonic_queue, rust_queue, rust_files, module_info>>
    /\ UNCHANGED symVars
    /\ UNCHANGED mainVars

Next ==
    \/ FindTonicFiles
    \/ SkipPrimary
    \/ RenamePrimary
    \/ MergeService
    \/ KeepService
    \/ FindRustFiles
    \/ NoRustFiles
    \/ SkipEmptyModule
    \/ InsertModule
    \/ WriteLibRs

Spec == Init /\ [][Next]_vars

----------------------------------------------------------------------------
\* main as a whole: protoc, the reconciliation, the listings,
\* compute_proto_package_info, generate_lib_rs, the two writes and rustfmt.

\* The files protoc leaves in out_dir in the runs of main the model follows.
MainFiles == {<<"a">> \o DotRs, <<"a">> \o DotTonicRs, DotTonicRs, Underscore}

MainDirs(tonic) == {dir \in InitialDirs(tonic) : DOMAIN dir \subseteq MainFiles}

\* The listings of those runs: empty, one line that splits, a blank line and the same
\* line (the name is repeated when two proto files list it), a line that does not
\* split.
MainStdouts ==
    { Stdout(<<>>), Stdout(<<LineOneDot>>), Stdout(<<LineBlank, LineOneDot>>),
      Stdout(<<LineTwoDots, LineNoSpace>>) }

MainListings == [1..Len(ProtoFiles) -> MainStdouts]

\* main before protoc is spawned.
MainInit ==
    /\ is_tonic \in BOOLEAN
    /\ rustfmt \in BOOLEAN
    /\ fs = <<>>
    /\ snap = <<>>
    /\ tonic_queue = <<>>
    /\ rust_queue = <<>>
    /\ rust_files = {}
    /\ module_info = <<>>
    /\ content = <<>>
    /\ pc = "protoc"
    /\ SymIdle
    /\ out_librs = <<>>
    /\ package_info_file = <<>>

\* protoc cannot be spawned or does not succeed: panic.
ProtocFails ==
    /\ pc = "protoc"
    /\ pc' = "panic"
    /\ UNCHANGED <<is_tonic, fs, snap, tonic_queue, rust_queue, rust_files, module_info, content>>
    /\ UNCHANGED symVars
    /\ UNCHANGED mainVars

\* protoc succeeds and has left its outputs in out_dir.
ProtocSucceeds ==
    /\ pc = "protoc"
    /\ fs' \in MainDirs(is_tonic)
    /\ pc' = "start"
    /\ UNCHANGED <<is_tonic, snap, tonic_queue, rust_queue, rust_files, module_info, content>>
    /\ UNCHANGED symVars
    /\ UNCHANGED mainVars

\* A file operation of the reconciliation or of generate_lib_rs fails: its expect()
\* panics.
IoFailure ==
    /\ \/ pc \in {"start", "reconcile"}
       \/ pc = "generate" /\ sym_pc = "ok"
    /\ pc' = "panic"
    /\ UNCHANGED <<is_tonic, fs, snap, tonic_queue, rust_queue, rust_files, module_info, content>>
    /\ UNCHANGED symVars
    /\ UNCHANGED mainVars

\* create_free_field_numbers_map: a protoc --print_free_field_numbers does not succeed.
FreeFieldNumbersFails ==
    /\ pc = "generate"
    /\ sym_pc = "idle"
    /\ pc' = "panic"
    /\ UNCHANGED <<is_tonic, fs, snap, tonic_queue, rust_queue, rust_files, module_info, content>>
    /\ UNCHANGED symVars
    /\ UNCHANGED mainVars

\* create_free_field_numbers_map returns the listings, and
\* compute_proto_package_info is called with them.
CallComputeProtoPackageInfo ==
    /\ pc = "generate"
    /\ sym_pc = "idle"
    /\ free_field_numbers' \in MainListings
    /\ crate_name' = <<"c", "k">>
    /\ sym_pc' = "run"
    /\ UNCHANGED <<listing_idx, lines_left, extern_paths>>
    /\ UNCHANGED fileVars
    /\ UNCHANGED mainVars

\* compute_proto_package_info returned Err: expect() panics.
PackageInfoErr ==
    /\ pc = "generate"
    /\ sym_pc = "err"
    /\ pc' = "panic"
    /\ UNCHANGED <<is_tonic, fs, snap, tonic_queue, rust_queue, rust_files, module_info, content>>
    /\ UNCHANGED symVars
    /\ UNCHANGED mainVars

\* generate_lib_rs runs once compute_proto_package_info has returned Ok.
GenerateLibRs ==
    /\ sym_pc = "ok"
    /\ \/ SkipEmptyModule
       \/ InsertModule
       \/ WriteLibRs

\* WriteOutLibrs at the place of the call of create_free_field_numbers_map.
WriteOutLibrs_Early ==
    /\ pc = "generate"
    /\ sym_pc = "idle"
    /\ out_librs = <<>>
    /\ out_librs' = <<[text      |-> generate_lib_rs(SortedSeq(rust_files), fs, is_tonic),
                       formatted |-> FALSE]>>
    /\ UNCHANGED <<rustfmt, package_info_file>>
    /\ UNCHANGED fileVars
    /\ UNCHANGED symVars

\* fs::write(&out_librs, generate_lib_rs(..)) succeeds.
WriteOutLibrs ==
    /\ pc = "done"
    /\ out_librs' = <<[text |-> content, formatted |-> FALSE]>>
    /\ pc' = "librs_written"
    /\ UNCHANGED <<is_tonic, fs, snap, tonic_queue, rust_queue, rust_files, module_info, content>>
    /\ UNCHANGED <<rustfmt, package_info_file>>
    /\ UNCHANGED symVars

\* fs::write(&out_librs, ..) fails: expect() panics.
WriteOutLibrsFails ==
    /\ pc = "done"
    /\ pc' = "panic"
    /\ UNCHANGED <<is_tonic, fs, snap, tonic_queue, rust_queue, rust_files, module_info, content>>
    /\ UNCHANGED symVars
    /\ UNCHANGED mainVars

\* fs::write(package_info_file, package_info..join("\n")) succeeds.
WritePackageInfo ==
    /\ pc = "librs_written"
    /\ package_info_file' = <<Join(SortedSeq(extern_paths), <<"\n">>)>>
    /\ pc' = "info_written"
    /\ UNCHANGED <<is_tonic, fs, snap, tonic_queue, rust_queue, rust_files, module_info, content>>
    /\ UNCHANGED <<rustfmt, out_librs>>
    /\ UNCHANGED symVars

\* fs::write(package_info_file, ..) fails: expect() panics.
WritePackageInfoFails ==
    /\ pc = "librs_written"
    /\ pc' = "panic"
    /\ UNCHANGED <<is_tonic, fs, snap, tonic_queue, rust_queue, rust_files, module_info, content>>
    /\ UNCHANGED symVars
    /\ UNCHANGED mainVars

\* rustfmt is None: main returns.
NoRustfmt ==
    /\ pc = "info_written"
    /\ ~rustfmt
    /\ pc' = "exit"
    /\ UNCHANGED <<is_tonic, fs, snap, tonic_queue, rust_queue, rust_files, module_info, content>>
    /\ UNCHANGED symVars
    /\ UNCHANGED mainVars

\* rustfmt succeeds on the file at out_librs: main returns.
RustfmtSucceeds ==
    /\ pc = "info_written"
    /\ rustfmt
    /\ out_librs' = <<[text |-> out_librs[1].text, formatted |-> TRUE]>>
    /\ pc' = "exit"
    /\ UNCHANGED <<is_tonic, fs, snap, tonic_queue, rust_queue, rust_files, module_info, content>>
    /\ UNCHANGED <<rustfmt, package_info_file>>
    /\ UNCHANGED symVars

\* rustfmt cannot be spawned or does not succeed: panic.
RustfmtFails ==
    /\ pc = "info_written"
    /\ rustfmt
    /\ pc' = "panic"
    /\ UNCHANGED <<is_tonic, fs, snap, tonic_queue, rust_queue, rust_files, module_info, content>>
    /\ UNCHANGED symVars
    /\ UNCHANGED mainVars

MainNext ==
    \/ ProtocFails
    \/ ProtocSucceeds
    \/ FindTonicFiles
    \/ SkipPrimary
    \/ RenamePrimary
    \/ MergeService
    \/ KeepService
    \/ FindRustFiles
    \/ NoRustFiles
    \/ IoFailure
    \/ FreeFieldNumbersFails
    \/ CallComputeProtoPackageInfo
    \/ NextListing
    \/ SkipBlankLine
    \/ MalformedLine
    \/ InsertExternPath
    \/ DuplicateExtern
    \/ ReturnOk
    \/ PackageInfoErr
    \/ GenerateLibRs
    \/ WriteOutLibrs
    \/ WriteOutLibrsFails
    \/ WritePackageInfo
    \/ WritePackageInfoFails
    \/ NoRustfmt
    \/ RustfmtSucceeds
    \/ RustfmtFails

SpecMain == MainInit /\ [][MainNext]_vars

----------------------------------------------------------------------------
\* The claims about compute_proto_package_info, stated from the listing the call
\* was given.

\* Every line of every listing, as <<listing, line>> positions.
LinePositions ==
    {q \in (1..Len(free_field_numbers)) \X (1..MaxLines) :
        q[2] <= Len(Lines(free_field_numbers[q[1]]))}

LineAt(q) == Lines(free_field_numbers[q[1]])[q[2]]

NonBlankPositions == {q \in LinePositions : \E i \in 1..Len(LineAt(q)) : ~IsWhitespace(LineAt(q)[i])}

\* The first space-delimited token of a non-blank line: the characters from its first
\* non-whitespace character up to the next space (or the end of the line).
TokenOf(line) ==
    LET first == Min({i \in 1..Len(line) : ~IsWhitespace(line[i])})
        stops == {i \in first..Len(line) : line[i] = " "} \cup {Len(line) + 1}
    IN  SubSeq(line, first, Min(stops) - 1)

HasSpaceAfterToken(line) ==
    LET first == Min({i \in 1..Len(line) : ~IsWhitespace(line[i])})
    IN  \E i \in first..Len(line) : line[i] = " "

\* The entry the claim gives for absolute name A and crate name C.
ClaimedEntry(A, C) ==
    LET segs == Split(A, ".")
        last == segs[Len(segs)]
        pkg  == Join(SubSeq(segs, 1, Len(segs) - 1), <<":", ":">>)
    IN  IF Len(segs) = 1
        THEN <<".">> \o A \o <<"=">> \o C \o <<":", ":">> \o A
        ELSE <<".">> \o A \o <<"=">> \o C \o <<":", ":">> \o pkg \o <<":", ":">> \o last

\* C1: when compute_proto_package_info returns Ok, the set holds, for every non-blank
\* line with first token A, the entry ".A=C::pkg::last" (".A=C::A" when A has no '.'),
\* and nothing else.
C1_EntriesExact ==
    sym_pc = "ok" =>
        extern_paths = {ClaimedEntry(TokenOf(LineAt(q)), crate_name) : q \in NonBlankPositions}

\* C1 witness: an Ok result holding the entries of a name without '.' and of a name
\* with two '.'.
C1_Witness ==
    /\ sym_pc = "ok"
    /\ <<".", "m", "=", "c", "k", ":", ":", "m">> \in extern_paths
    /\ <<".", "p", ".", "m", ".", "n", "=", "c", "k", ":", ":",
         "p", ":", ":", "m", ":", ":", "n">> \in extern_paths

\* Some absolute name stands on two lines (of one listing or of two).
NameRepeated ==
    \E q, r \in NonBlankPositions : q # r /\ TokenOf(LineAt(q)) = TokenOf(LineAt(r))

AllSplittable == \A q \in NonBlankPositions : HasSpaceAfterToken(LineAt(q))

\* The loops of the call are not over, or the call can return.
SymCanStep ==
    \/ lines_left # <<>>
    \/ listing_idx <= Len(free_field_numbers)

\* C2: the call never returns Ok when a name stands on two lines, and it returns the
\* duplicate error only then; for a listing whose non-blank lines all split into name
\* and rest, the call ends, with Err when a name is repeated and with Ok when all
\* names are distinct.
C2_DuplicateIsError ==
    /\ sym_pc = "ok" => ~NameRepeated
    /\ sym_pc = "err" => NameRepeated
    /\ (sym_pc # "run" /\ AllSplittable) => sym_pc = (IF NameRepeated THEN "err" ELSE "ok")
    /\ sym_pc = "run" => SymCanStep

\* C2 witness: the duplicate error raised for a name that stands in the listings of
\* two different proto files.
C2_Witness ==
    /\ sym_pc = "err"
    /\ listing_idx = 2
    /\ \E q, r \in NonBlankPositions :
          q[1] = 1 /\ r[1] = 2 /\ TokenOf(LineAt(q)) = TokenOf(LineAt(r))

----------------------------------------------------------------------------
\* The claims about the reconciliation loop, stated from the directory the loop
\* found (snap) and the directory it left (fs).

\* The loop has visited every file of its snapshot.
ReconcileOver ==
    /\ is_tonic
    /\ pc \in {"reconcile", "generate", "done"}
    /\ tonic_queue = <<>>

\* The package a file name stands for: the name without ".tonic.rs" or ".rs".
PackageOfFile(path) ==
    IF EndsWith(path, DotTonicRs) THEN StripSuffix(path, DotTonicRs) ELSE StripSuffix(path, DotRs)

PackagesOf(dir) == {PackageOfFile(path) : path \in DOMAIN dir}
FilesOfPackage(dir, p) == {path \in DOMAIN dir : PackageOfFile(path) = p}
HasPrimary(dir, p) == p \o DotRs \in DOMAIN dir
HasService(dir, p) == p \o DotTonicRs \in DOMAIN dir

\* C3: for a package with both p.rs and p.tonic.rs, the loop leaves p.tonic.rs holding
\* the Primary content, a newline and the Service content, and p.rs is gone.
C3_BothMerged ==
    ReconcileOver =>
        \A p \in PackagesOf(snap) :
            (HasPrimary(snap, p) /\ HasService(snap, p)) =>
                /\ HasService(fs, p)
                /\ fs[p \o DotTonicRs] = snap[p \o DotRs] \o <<Newline>> \o snap[p \o DotTonicRs]
                /\ ~HasPrimary(fs, p)

\* C3 witness: the loop is over for a directory that held both files of package a.
C3_Witness ==
    /\ ReconcileOver
    /\ HasPrimary(snap, <<"a">>)
    /\ HasService(snap, <<"a">>)
    /\ Len(fs[<<"a">> \o DotTonicRs]) = 3

\* C4: a package with p.rs alone ends as the one file p.tonic.rs with the Primary
\* content; a package with p.tonic.rs alone keeps that file unchanged; no other file
\* of the package exists.
C4_SingleKind ==
    ReconcileOver =>
        \A p \in PackagesOf(snap) :
            /\ (HasPrimary(snap, p) /\ ~HasService(snap, p)) =>
                  /\ FilesOfPackage(fs, p) = {p \o DotTonicRs}
                  /\ fs[p \o DotTonicRs] = snap[p \o DotRs]
            /\ (HasService(snap, p) /\ ~HasPrimary(snap, p)) =>
                  /\ FilesOfPackage(fs, p) = {p \o DotTonicRs}
                  /\ fs[p \o DotTonicRs] = snap[p \o DotTonicRs]

\* C4 witness: the loop is over for a Primary-only package and a Service-only one.
C4_Witness ==
    /\ ReconcileOver
    /\ \E p, q \in PackagesOf(snap) :
          /\ HasPrimary(snap, p) /\ ~HasService(snap, p)
          /\ HasService(snap, q) /\ ~HasPrimary(snap, q)
          /\ HasService(fs, p) /\ HasService(fs, q)

\* C5: after the loop every package of the snapshot has exactly one file, no other
\* package has one, every file ends in ".tonic.rs", and so every stem generate_lib_rs
\* visits ends in ".tonic".
C5_OneServiceFilePerPackage ==
    /\ ReconcileOver =>
          /\ PackagesOf(fs) = PackagesOf(snap)
          /\ \A p \in PackagesOf(snap) : Cardinality(FilesOfPackage(fs, p)) = 1
          /\ \A path \in DOMAIN fs : EndsWith(path, DotTonicRs)
    /\ (is_tonic /\ pc = "generate") =>
          \A i \in 1..Len(rust_queue) : EndsWith(FileStem(rust_queue[i]), DotTonic)
    /\ (is_tonic /\ pc = "panic") => DOMAIN fs = {}

\* C5 witness: the loop is over for three packages: both kinds, Primary only, Service
\* only, and generate_lib_rs has started on the three files left.
C5_Witness ==
    /\ ReconcileOver
    /\ pc = "generate"
    /\ Cardinality(PackagesOf(snap)) = 3
    /\ Cardinality(DOMAIN fs) = 3
    /\ \E p \in PackagesOf(snap) : HasPrimary(snap, p) /\ HasService(snap, p)
    /\ \E p \in PackagesOf(snap) : HasPrimary(snap, p) /\ ~HasService(snap, p)
    /\ \E p \in PackagesOf(snap) : ~HasPrimary(snap, p) /\ HasService(snap, p)

----------------------------------------------------------------------------
\* The claims about the module tree and its serialization.

\* The loop of generate_lib_rs has visited every file.
TreeBuilt ==
    /\ pc \in {"generate", "done"}
    /\ rust_queue = <<>>

\* The packages of the fragments that enter the tree.
FragmentModules == {ModuleName(path, is_tonic) : path \in rust_files} \ {<<>>}

\* A dotted path and the paths that are its prefixes on segment boundaries.
PrefixesOf(m) ==
    LET parts == Split(m, ".")
    IN  {Join(SubSeq(parts, 1, i), <<".">>) : i \in 1..Len(parts)}

\* C6: the nodes of the tree are the fragments' packages and their strict prefixes,
\* and a node that is no fragment's package has empty content.
C6_NodesArePrefixes ==
    TreeBuilt =>
        /\ DOMAIN module_info = UNION {PrefixesOf(m) : m \in FragmentModules}
        /\ \A key \in DOMAIN module_info :
              key \notin FragmentModules => module_info[key].contents = <<>>

\* C6 witness: fragments a.b and a.b.c, none for a, and the tree holds an empty a.
C6_Witness ==
    /\ TreeBuilt
    /\ <<"a", ".", "b">> \in FragmentModules
    /\ <<"a", ".", "b", ".", "c">> \in FragmentModules
    /\ <<"a">> \notin FragmentModules
    /\ <<"a">> \in DOMAIN module_info
    /\ module_info[<<"a">>].contents = <<>>

\* C7 as claimed: once every fragment is processed, every node P.s with P non-empty is
\* registered as submodule s of the node at P.
C7_ChildrenRegistered ==
    TreeBuilt =>
        \A key \in DOMAIN module_info :
            Contains(key, ".") =>
                /\ RSplitOnce(key, ".")[1] \in DOMAIN module_info
                /\ RSplitOnce(key, ".")[2] \in module_info[RSplitOnce(key, ".")[1]].submodules

\* C8 as claimed: in the text written, no file's content stands twice, one scope is
\* opened per module that is not "_", and the scopes opened at the top level (depth 1)
\* are those of the one-segment modules.
C8_EachNodeOnce ==
    pc = "done" =>
        /\ \A i, j \in 1..Len(content) :
              (content[i].k = "text" /\ content[i] = content[j]) => i = j
        /\ Cardinality({i \in 1..Len(content) : content[i].k = "open"})
              = Cardinality({key \in DOMAIN module_info : module_info[key].name # Underscore})
        /\ Cardinality({i \in 1..Len(content) : content[i].k = "open" /\ content[i].d = 1})
              = Cardinality({key \in DOMAIN module_info :
                                ~Contains(key, ".") /\ module_info[key].name # Underscore})

\* Every order of the elements of S.
RECURSIVE Orders(_)
Orders(S) ==
    IF S = {} THEN {<<>>}
    ELSE UNION {{<<x>> \o rest : rest \in Orders(S \ {x})} : x \in S}

\* C9 as claimed: the text written is the text generate_lib_rs gives for every order
\* in which the same files are inserted.
C9_OrderIndependent ==
    pc = "done" =>
        \A order \in Orders(rust_files) : generate_lib_rs(order, fs, is_tonic) = content

\* text holds part as a run of consecutive tokens.
HoldsRun(text, part) ==
    \E i \in 0..(Len(text) - Len(part)) : SubSeq(text, i + 1, i + Len(part)) = part

\* The scope markers of depth d in text.
MarkersAt(text, depth) ==
    {i \in 1..Len(text) : text[i].k \in {"open", "close"} /\ text[i].d = depth}

\* The depths write_module is called with for the module at key.
DepthsOf(key) == 1..Len(Split(key, "."))

\* C10: what write_module gives for a module named "_" holds no scope marker of its
\* own depth and starts with the module's contents; for every other module it starts
\* with the opening marker of the module's name, then its contents, and ends with the
\* closing marker of the same depth, with no other marker of that depth; in both cases
\* it holds what write_module gives for each submodule one level deeper. The text
\* written holds what write_module gives for the module at depth 1.
C10_TransparentAndScoped ==
    pc = "done" =>
        \A key \in DOMAIN module_info : \A depth \in DepthsOf(key) :
            LET module == module_info[key]
                text   == write_module(module_info, key, depth)
            IN  /\ IF module.name = Underscore
                   THEN /\ MarkersAt(text, depth) = {}
                        /\ SubSeq(text, 1, Len(module.contents)) = module.contents
                   ELSE /\ Len(text) >= 2 + Len(module.contents)
                        /\ text[1] = OpenMod(depth, module.name)
                        /\ SubSeq(text, 2, 1 + Len(module.contents)) = module.contents
                        /\ text[Len(text)] = CloseMod(depth)
                        /\ MarkersAt(text, depth) = {1, Len(text)}
                /\ \A sub \in module.submodules :
                      HoldsRun(text, write_module(module_info, key \o <<".">> \o sub, depth + 1))
                /\ depth = 1 => HoldsRun(content, text)

\* C10 witness: a text written from a tree in which the module "_" has contents and a
\* submodule, and module a has a submodule.
C10_Witness ==
    /\ pc = "done"
    /\ Underscore \in DOMAIN module_info
    /\ module_info[Underscore].contents # <<>>
    /\ module_info[Underscore].submodules # {}
    /\ <<"a">> \in DOMAIN module_info
    /\ module_info[<<"a">>].submodules # {}

\* The files of rust_files whose module name is empty.
EmptyModuleFiles == {path \in rust_files : ModuleName(path, is_tonic) = <<>>}

\* text holds some token of part.
SharesToken(text, part) ==
    \E i \in 1..Len(text) : \E j \in 1..Len(part) : text[i] = part[j]

\* C11 as claimed: the text written holds the contents of every file whose module
\* name is empty.
C11_EmptyModuleContributes ==
    pc = "done" => \A path \in EmptyModuleFiles : HoldsRun(content, fs[path])

\* C11: a file whose module name is empty is skipped: no node of the tree is made
\* for it (no key is empty) and the text written holds none of its contents.
C11_EmptyModuleSkipped ==
    pc = "done" =>
        /\ <<>> \notin DOMAIN module_info
        /\ \A path \in EmptyModuleFiles :
              /\ path \in DOMAIN fs
              /\ fs[path] # <<>>
              /\ ~SharesToken(content, fs[path])

\* C11 witness: a text written from files of which one has an empty module name and
\* another one has not.
C11_Witness ==
    /\ pc = "done"
    /\ EmptyModuleFiles # {}
    /\ rust_files \ EmptyModuleFiles # {}

\* A line of whitespace alone.
BlankLine(line) == \A i \in 1..Len(line) : IsWhitespace(line[i])

\* A line that is not blank and has no space between its first and its last
\* non-whitespace character.
NoSpaceLine(line) ==
    LET inked == {i \in 1..Len(line) : ~IsWhitespace(line[i])}
    IN  /\ inked # {}
        /\ \A i \in Min(inked)..Max(inked) : line[i] # " "

\* The lines of the listings the call has passed: all lines of the listings before
\* listing_idx and the lines of listing listing_idx that are no longer in lines_left.
PassedPositions ==
    {q \in LinePositions :
        \/ q[1] < listing_idx
        \/ /\ q[1] = listing_idx
           /\ q[2] <= Len(Lines(free_field_numbers[q[1]])) - Len(lines_left)}

\* The line the call is at.
AtLine == sym_pc = "run" /\ lines_left # <<>>

\* One step of the call at a blank line or at a line without a space.
C13_LineStep ==
    /\ (AtLine /\ BlankLine(Head(lines_left))) =>
          /\ sym_pc' = "run"
          /\ extern_paths' = extern_paths
          /\ lines_left' = Tail(lines_left)
          /\ listing_idx' = listing_idx
    /\ (AtLine /\ NoSpaceLine(Head(lines_left))) =>
          /\ sym_pc' = "panic"
          /\ extern_paths' = extern_paths
    /\ sym_pc = "panic" => sym_pc' = "panic"

\* C13: a line that is blank once trimmed is passed over, adding no entry and raising
\* no error; at a non-blank line without a space the call panics, so the call never
\* passes such a line and never returns a set (Ok) for listings that hold one, and it
\* panics at such a line only.
C13_BlankSkippedMalformedFatal ==
    /\ [][C13_LineStep]_vars
    /\ [](sym_pc = "ok" => \A q \in LinePositions : ~NoSpaceLine(LineAt(q)))
    /\ [](sym_pc = "panic" => lines_left # <<>> /\ NoSpaceLine(Head(lines_left)))

\* C13 witness: the call panicked at a line without a space after it had passed a
\* blank line and had added an entry.
C13_Witness ==
    /\ sym_pc = "panic"
    /\ extern_paths # {}
    /\ \E q \in PassedPositions : BlankLine(LineAt(q))

\* The loop of this run has just ended.
LoopEnded == is_tonic /\ pc = "reconcile" /\ tonic_queue = <<>>

\* C14: run a second time, on the directory the loop has left, the block of the tonic
\* mode finds only .tonic.rs files without a .rs file, so every turn of its loop is
\* the one that does nothing, and it leaves the directory as it is; and whatever the
\* order in which the loop visits the files of the snapshot, it ends without a panic
\* and leaves the directory this run's loop has left (for a package with both files:
\* the one .tonic.rs file with the Primary content, a newline and the Service
\* content).
C14_IdempotentAnyOrder ==
    LoopEnded =>
        /\ find_generated_rust_files(fs).dir = fs
        /\ \A path \in find_generated_rust_files(fs).files :
              /\ EndsWith(path, DotTonicRs)
              /\ RsFile(path) \notin DOMAIN fs
              /\ ReconcileFile(fs, path) = [panic |-> FALSE, dir |-> fs]
        /\ Reconcile(fs) = [panic |-> FALSE, dir |-> fs]
        /\ \A order \in Orders(find_generated_rust_files(snap).files) :
              ReconcileLoop(snap, order) = [panic |-> FALSE, dir |-> fs]
        /\ \A p \in PackagesOf(snap) :
              (HasPrimary(snap, p) /\ HasService(snap, p)) =>
                  fs[p \o DotTonicRs] # snap[p \o DotRs]

\* C14 witness: the loop has ended for a snapshot with both files of package a and
\* the Primary file alone of package a.b, so it has merged and renamed.
C14_Witness ==
    /\ LoopEnded
    /\ HasPrimary(snap, <<"a">>)
    /\ HasService(snap, <<"a">>)
    /\ HasPrimary(snap, <<"a", ".", "b">>)
    /\ ~HasService(snap, <<"a", ".", "b">>)
    /\ fs # snap

\* The run of main has ended in a panic.
MainFailed == pc = "panic" \/ sym_pc = "panic"

\* Every stage of main before the writes has succeeded: files were found,
\* compute_proto_package_info returned Ok and generate_lib_rs returned its text.
UpstreamSucceeded ==
    /\ rust_files # {}
    /\ sym_pc = "ok"
    /\ rust_queue = <<>>
    /\ content # <<>>
    /\ content = generate_lib_rs(SortedSeq(rust_files), fs, is_tonic)

\* C12 as claimed: in a run that has ended in a panic neither output file has been
\* written.
C12_NoOutputOnFailure ==
    MainFailed => (out_librs = <<>> /\ package_info_file = <<>>)

\* C12: an output file is written only after every stage before the writes has
\* succeeded, lib.rs with the text of generate_lib_rs and then the extern-path file
\* with the joined set; so a run that panics in protoc, in the reconciliation, for want
\* of files, in a listing, in compute_proto_package_info or in generate_lib_rs has
\* written neither file. (A panic of the second write or of rustfmt comes after
\* lib.rs was written.)
C12_WritesAfterUpstream ==
    /\ (out_librs # <<>> \/ package_info_file # <<>>) =>
          /\ UpstreamSucceeded
          /\ pc \in {"librs_written", "info_written", "exit", "panic"}
    /\ out_librs # <<>> => out_librs[1].text = content
    /\ package_info_file # <<>> =>
          /\ out_librs # <<>>
          /\ package_info_file[1] = Join(SortedSeq(extern_paths), <<"\n">>)
    /\ (MainFailed /\ ~UpstreamSucceeded) => (out_librs = <<>> /\ package_info_file = <<>>)
    /\ pc = "exit" => (out_librs # <<>> /\ package_info_file # <<>>)

\* C12 witness: a run that found files and panicked on the duplicate error of
\* compute_proto_package_info, with neither file written.
C12_Witness ==
    /\ pc = "panic"
    /\ sym_pc = "err"
    /\ rust_files # {}
    /\ out_librs = <<>>
    /\ package_info_file = <<>>

====
